---- MODULE Spec2Model ----
(***************************************************************************)
(* Model of pr_agent/tools/ticket_pr_compliance_check.py: extraction of    *)
(* ticket references from a pull-request description, the three ticket     *)
(* fetchers (GitHub issues, Jira, Azure DevOps work items), the            *)
(* orchestrator extract_tickets and the cache layer                        *)
(* extract_and_cache_pr_tickets.                                           *)
(*                                                                         *)
(* External collaborators (the hosting provider, the Jira client, the      *)
(* settings store) are modelled by fixed tracker content plus a set of     *)
(* "faults": the collaborator calls that raise during one run.             *)
(***************************************************************************)
EXTENDS Integers, Sequences, FiniteSets, TLC

(***************************************************************************)
(* Bounds of the model.                                                    *)
(***************************************************************************)
\* at most MaxFaults collaborator calls raise during one run
MaxFaults == 2

(***************************************************************************)
(* Program constants.                                                      *)
(***************************************************************************)
MAX_TICKET_CHARACTERS == 10000
\* "if len(github_tickets) > 3" / "[:3]"
MAX_GITHUB_TICKETS == 3
\* "len(issue_number) < 5"
MAX_BARE_DIGITS == 5

(***************************************************************************)
(* Text helpers.                                                           *)
(***************************************************************************)
\* _truncate_text on a text of the given length (0 stands for None or ""):
\* the length of what it returns; the marker "..." adds 3 characters.
TruncateText(len) ==
    IF len = 0 THEN 0
    ELSE IF len > MAX_TICKET_CHARACTERS THEN MAX_TICKET_CHARACTERS + 3
    ELSE len

RECURSIVE JoinLabels(_)
\* ", ".join(labels)
JoinLabels(labels) ==
    IF labels = <<>> THEN ""
    ELSE IF Len(labels) = 1 THEN labels[1]
    ELSE labels[1] \o ", " \o JoinLabels(Tail(labels))

RECURSIVE DigitLen(_)
\* len(issue_number) of the decimal digits captured by "#\d+"
DigitLen(n) == IF n < 10 THEN 1 ELSE 1 + DigitLen(n \div 10)

\* the injective sequences of length k over the set S: the orders in which
\* list(set) may enumerate k elements of S
RECURSIVE Arrangements(_, _)
Arrangements(S, k) ==
    IF k = 0 \/ S = {} THEN {<<>>}
    ELSE UNION {{<<x>> \o rest : rest \in Arrangements(S \ {x}, k - 1)} : x \in S}

Range(s) == {s[i] : i \in 1..Len(s)}

(***************************************************************************)
(* The hosting site: issues of the repository "own/repo".                  *)
(***************************************************************************)
GithubHost == "https://github.com"
RepoPath == "own/repo"

\* f"{base_url_html.strip('/')}/{repo_path}/issues/{issue_number}"
IssueUrl(base, repo_path, n) ==
    base \o "/" \o repo_path \o "/issues/" \o ToString(n)

\* sub-issues declared by the issues of the repository (fetch_sub_issues)
SubIssueNums(n) ==
    IF n = 1 THEN <<11, 12>> ELSE IF n = 2 THEN <<21>> ELSE <<>>

IssueNums == 1..4
AllIssueNums == IssueNums \cup UNION {Range(SubIssueNums(n)) : n \in IssueNums}

\* git_provider._parse_issue_url(url): the issue number of an issue URL
ParseIssueUrl(url) ==
    CHOOSE n \in AllIssueNums : url = IssueUrl(GithubHost, RepoPath, n)

SubIssueUrls(url) ==
    LET subs == SubIssueNums(ParseIssueUrl(url))
    IN  [i \in 1..Len(subs) |-> IssueUrl(GithubHost, RepoPath, subs[i])]

\* issue.title, issue.body (its length), issue.labels of issue n
IssueTitle(n) == "Issue " \o ToString(n)
IssueBodyLen(n) ==
    IF n = 2 THEN MAX_TICKET_CHARACTERS + 7 ELSE IF n = 3 THEN 0 ELSE 10 * n
IssueLabels(n) == IF n = 1 THEN <<"bug", "ui">> ELSE <<>>

(***************************************************************************)
(* Descriptions: the matches the patterns find in the text.                *)
(* gh: the matches of GITHUB_TICKET_PATTERN, each of one of three shapes;  *)
(* jira: the keys matched by the patterns of find_jira_tickets.            *)
(* present = FALSE is a description that is None.                          *)
(***************************************************************************)
UrlToken(n) == [shape |-> "url", repo |-> RepoPath, num |-> n]
ShortToken(n) == [shape |-> "short", repo |-> RepoPath, num |-> n]
BareToken(n) == [shape |-> "bare", repo |-> "", num |-> n]

\* four matches that lead to four distinct issues of the repository
GithubTokens == {UrlToken(1), UrlToken(2), ShortToken(3), BareToken(4)}

\* matches that repeat an issue already referenced, or are rejected
OtherTokenSets ==
    {{ShortToken(1)}, {UrlToken(1), ShortToken(1)}, {BareToken(1), UrlToken(2)},
     {BareToken(99999)}, {UrlToken(1), BareToken(99999)}}

JiraKeys == {"ABC-123", "XYZ-9"}

NoDescription == [present |-> FALSE, gh |-> {}, jira |-> {}]
Description(gh, jira) == [present |-> TRUE, gh |-> gh, jira |-> jira]

\* the URL one match contributes to github_tickets (none for a rejected #n)
TokenUrls(t, repo_path, base_url_html) ==
    IF t.shape = "url" THEN {IssueUrl(GithubHost, t.repo, t.num)}
    ELSE IF t.shape = "short" THEN {IssueUrl(base_url_html, t.repo, t.num)}
    ELSE IF DigitLen(t.num) < MAX_BARE_DIGITS /\ repo_path # ""
         THEN {IssueUrl(base_url_html, repo_path, t.num)}
         ELSE {}

\* github_tickets before the cap; findall on None raises and the handler
\* leaves the set empty
FoundTicketLinks(desc, repo_path, base_url_html) ==
    IF ~desc.present THEN {}
    ELSE UNION {TokenUrls(t, repo_path, base_url_html) : t \in desc.gh}

\* a variant without the cap
ExtractTicketLinksUncapped(desc, repo_path, base_url_html) ==
    LET found == FoundTicketLinks(desc, repo_path, base_url_html)
    IN  Arrangements(found, Cardinality(found))

\* extract_ticket_links_from_pr_description: the lists it can return;
\* set(list(github_tickets)[:3]) keeps an arbitrary 3, in arbitrary order
ExtractTicketLinks(desc, repo_path, base_url_html) ==
    LET found == FoundTicketLinks(desc, repo_path, base_url_html)
    IN  IF Cardinality(found) > MAX_GITHUB_TICKETS
        THEN Arrangements(found, MAX_GITHUB_TICKETS)
        ELSE Arrangements(found, Cardinality(found))

\* find_jira_tickets: the lists list(tickets) can return
FindJiraTickets(desc) == Arrangements(desc.jira, Cardinality(desc.jira))

(***************************************************************************)
(* Faults: the collaborator calls that raise during one run.  A fault is   *)
(* the operation that raises and the URL, key or id it is applied to.      *)
(***************************************************************************)
Fault(op, on) == [op |-> op, on |-> on]

(***************************************************************************)
(* The repo-issue fetcher.                                                 *)
(***************************************************************************)
\* a variant without the inner try: the first failing sub-issue ends the loop
RECURSIVE SubIssuesContentAborting(_, _)
SubIssuesContentAborting(urls, F) ==
    IF urls = <<>> THEN <<>>
    ELSE LET u == Head(urls)
             n == ParseIssueUrl(u)
         IN  IF Fault("sub_issue", u) \in F THEN <<>>
             ELSE <<[ticket_url |-> u,
                     title |-> IssueTitle(n),
                     body |-> TruncateText(IssueBodyLen(n))]>>
                      \o SubIssuesContentAborting(Tail(urls), F)

\* the loop body of _extract_github_sub_issues over the sub-issue URLs: a
\* sub-issue whose fetch raises is logged and left out
RECURSIVE SubIssuesContent(_, _)
SubIssuesContent(urls, F) ==
    IF urls = <<>> THEN <<>>
    ELSE LET u == Head(urls)
             n == ParseIssueUrl(u)
             rest == SubIssuesContent(Tail(urls), F)
         IN  IF Fault("sub_issue", u) \in F THEN rest
             ELSE <<[ticket_url |-> u,
                     title |-> IssueTitle(n),
                     body |-> TruncateText(IssueBodyLen(n))]>> \o rest

\* _extract_github_sub_issues: a failing fetch_sub_issues yields no sub-issue
ExtractGithubSubIssues(ticket, F) ==
    IF Fault("fetch_sub_issues", ticket) \in F THEN <<>>
    ELSE SubIssuesContent(SubIssueUrls(ticket), F)

\* _extract_github_labels: a failure reading issue_main.labels yields no
\* label
ExtractGithubLabels(ticket, F) ==
    IF Fault("labels", ticket) \in F THEN <<>>
    ELSE IssueLabels(ParseIssueUrl(ticket))

\* one iteration of the loop of _extract_github_tickets.  kind is "skip"
\* (the guarded parse/get_issue raised: continue), "raise" (an unguarded
\* read of issue_main.body, .number or .title raised) or "record".
GithubTicket(ticket, F) ==
    LET n == ParseIssueUrl(ticket)
        record == [ticket_id |-> "GH-" \o ToString(n),
                   ticket_url |-> ticket,
                   title |-> IssueTitle(n),
                   body |-> TruncateText(IssueBodyLen(n)),
                   labels |-> JoinLabels(ExtractGithubLabels(ticket, F)),
                   sub_issues |-> ExtractGithubSubIssues(ticket, F)]
    IN  IF Fault("parse_issue_url", ticket) \in F \/ Fault("get_issue", ticket) \in F
        THEN [kind |-> "skip", record |-> record]
        ELSE IF Fault("body", ticket) \in F \/ Fault("title", ticket) \in F
        THEN [kind |-> "raise", record |-> record]
        ELSE [kind |-> "record", record |-> record]

\* the loop of _extract_github_tickets over the capped list of links:
\* raised: an exception left the function (its records are lost with it);
\* fetched: the links for which get_issue was called.
RECURSIVE GithubTicketsLoop(_, _)
GithubTicketsLoop(tickets, F) ==
    IF tickets = <<>>
    THEN [raised |-> FALSE, tickets |-> <<>>, fetched |-> <<>>]
    ELSE LET t == Head(tickets)
             one == GithubTicket(t, F)
             got == IF Fault("parse_issue_url", t) \in F THEN <<>> ELSE <<t>>
         IN  IF one.kind = "raise"
             THEN [raised |-> TRUE, tickets |-> <<>>, fetched |-> got]
             ELSE LET rest == GithubTicketsLoop(Tail(tickets), F)
                  IN  [raised |-> rest.raised,
                       tickets |-> IF rest.raised THEN <<>>
                                   ELSE IF one.kind = "skip" THEN rest.tickets
                                   ELSE <<one.record>> \o rest.tickets,
                       fetched |-> got \o rest.fetched]

\* _extract_github_tickets, given the list extract_ticket_links_... returned
ExtractGithubTickets(tickets, F) == GithubTicketsLoop(tickets, F)

(***************************************************************************)
(* The Jira fetcher.                                                       *)
(***************************************************************************)
\* a configuration value: unset (None) or a text
NoValue == [set |-> FALSE, text |-> ""]
Value(text) == [set |-> TRUE, text |-> text]
JiraServer == "https://jira.example"

\* text.strip() == "" for the texts of the model
IsWhitespace(text) == text \in {"", " ", "  "}

\* "not v or not v.strip()"
IsBlank(v) == ~v.set \/ v.text = "" \/ IsWhitespace(v.text)

\* a variant that tests "not v" only, without strip()
ValidateJiraConfigNoStrip(jira_url, jira_email, jira_token) ==
    (IF ~jira_url.set \/ jira_url.text = "" THEN <<"jira_base_url">> ELSE <<>>)
        \o (IF ~jira_email.set \/ jira_email.text = "" THEN <<"jira_api_email">> ELSE <<>>)
        \o (IF ~jira_token.set \/ jira_token.text = "" THEN <<"jira_api_token">> ELSE <<>>)

\* _validate_jira_config: the names of the missing values
ValidateJiraConfig(jira_url, jira_email, jira_token) ==
    (IF IsBlank(jira_url) THEN <<"jira_base_url">> ELSE <<>>)
        \o (IF IsBlank(jira_email) THEN <<"jira_api_email">> ELSE <<>>)
        \o (IF IsBlank(jira_token) THEN <<"jira_api_token">> ELSE <<>>)

\* issue.fields of the tracker's issues
JiraSubtaskKeys(key) == IF key = "ABC-123" THEN <<"ABC-124", "ABC-125">> ELSE <<>>
JiraSummary(key) == "Summary of " \o key
JiraDescriptionLen(key) == IF key = "XYZ-9" THEN MAX_TICKET_CHARACTERS + 1 ELSE 25
JiraLabels(key) == IF key = "ABC-123" THEN <<"backend">> ELSE <<>>
JiraStatus(key) == IF key = "XYZ-9" THEN "Done" ELSE "Open"

\* _extract_jira_subtasks: a subtask whose fetch raises is logged and left out
RECURSIVE ExtractJiraSubtasks(_, _, _)
ExtractJiraSubtasks(subtasks, jira_url, F) ==
    IF subtasks = <<>> THEN <<>>
    ELSE LET k == Head(subtasks)
             rest == ExtractJiraSubtasks(Tail(subtasks), jira_url, F)
         IN  IF Fault("jira_subtask", k) \in F THEN rest
             ELSE <<[ticket_url |-> jira_url \o "/browse/" \o k,
                     title |-> JiraSummary(k),
                     body |-> TruncateText(JiraDescriptionLen(k))]>> \o rest

\* _extract_single_jira_ticket: <<>> stands for None, <<record>> for the dict
ExtractSingleJiraTicket(key, jira_url, F) ==
    IF Fault("jira_issue", key) \in F THEN <<>>
    ELSE <<[ticket_id |-> key,
            ticket_url |-> jira_url \o "/browse/" \o key,
            title |-> JiraSummary(key),
            body |-> TruncateText(JiraDescriptionLen(key)),
            status |-> JiraStatus(key),
            labels |-> JoinLabels(JiraLabels(key)),
            sub_issues |-> ExtractJiraSubtasks(JiraSubtaskKeys(key), jira_url, F)]>>

\* the loop "for key in jira_keys" of _extract_jira_tickets_sync
RECURSIVE JiraTicketsLoop(_, _, _)
JiraTicketsLoop(keys, jira_url, F) ==
    IF keys = <<>> THEN <<>>
    ELSE ExtractSingleJiraTicket(Head(keys), jira_url, F)
             \o JiraTicketsLoop(Tail(keys), jira_url, F)

\* the gate of _extract_jira_tickets_sync: keys found, integration enabled,
\* configuration complete
JiraGateOpen(jira_keys, settings) ==
    /\ jira_keys # <<>>
    /\ settings.enabled
    /\ ValidateJiraConfig(settings.url, settings.email, settings.token) = <<>>

\* _extract_jira_tickets_sync, given the list find_jira_tickets returned:
\* client: JIRA(...) was called; issues: the keys passed to client.issue
ExtractJiraTicketsSync(jira_keys, settings, F) ==
    IF ~JiraGateOpen(jira_keys, settings)
    THEN [client |-> FALSE, issues |-> <<>>, tickets |-> <<>>]
    ELSE IF Fault("jira_connect", JiraServer) \in F
    THEN [client |-> TRUE, issues |-> <<>>, tickets |-> <<>>]
    ELSE [client |-> TRUE, issues |-> jira_keys,
          tickets |-> JiraTicketsLoop(jira_keys, settings.url.text, F)]

(***************************************************************************)
(* The work-item fetcher.                                                  *)
(***************************************************************************)
WorkItem(id) ==
    [id |-> id,
     url |-> "https://dev.azure.com/own/_workitems/edit/" \o id,
     title |-> "Work item " \o id,
     body |-> IF id = "102" THEN MAX_TICKET_CHARACTERS + 2 ELSE 30,
     acceptance_criteria |-> "criteria of " \o id,
     labels |-> IF id = "101" THEN <<"sprint", "api">> ELSE <<>>]

\* git_provider.get_linked_work_items()
LinkedWorkItems == <<WorkItem("101"), WorkItem("102")>>

\* the loop of _extract_azure_devops_tickets: an item whose processing
\* raises is logged and left out
RECURSIVE AzureTicketsLoop(_, _)
AzureTicketsLoop(items, F) ==
    IF items = <<>> THEN <<>>
    ELSE LET t == Head(items)
             rest == AzureTicketsLoop(Tail(items), F)
         IN  IF Fault("work_item", t.id) \in F THEN rest
             ELSE <<[ticket_id |-> t.id,
                     ticket_url |-> t.url,
                     title |-> t.title,
                     body |-> TruncateText(t.body),
                     requirements |-> t.acceptance_criteria,
                     labels |-> JoinLabels(t.labels)]>> \o rest

\* a variant without the outer try: a failing get_linked_work_items raises
ExtractAzureDevopsTicketsUnguarded(F) ==
    IF Fault("get_linked_work_items", "pr") \in F
    THEN [raised |-> TRUE, tickets |-> <<>>, fetched |-> <<>>]
    ELSE [raised |-> FALSE, tickets |-> AzureTicketsLoop(LinkedWorkItems, F), fetched |-> <<>>]

\* _extract_azure_devops_tickets: a failing get_linked_work_items yields []
ExtractAzureDevopsTickets(F) ==
    IF Fault("get_linked_work_items", "pr") \in F
    THEN [raised |-> FALSE, tickets |-> <<>>, fetched |-> <<>>]
    ELSE [raised |-> FALSE, tickets |-> AzureTicketsLoop(LinkedWorkItems, F), fetched |-> <<>>]

(***************************************************************************)
(* Inputs of a run.                                                        *)
(***************************************************************************)
\* the subsets of S with at most k elements
RECURSIVE SubsetsUpTo(_, _)
SubsetsUpTo(S, k) ==
    IF k = 0 THEN {{}}
    ELSE LET smaller == SubsetsUpTo(S, k - 1)
         IN  smaller \cup {T \cup {x} : T \in smaller, x \in S}

\* GithubProvider, AzureDevopsProvider, any other provider
ProviderTypes == {"github", "azure", "other"}

\* a git provider: its class, its pull request and what
\* get_user_description() returns
Provider(type, pr_url, desc) ==
    [type |-> type, pr_url |-> pr_url, desc |-> desc,
     repo |-> RepoPath, base_url_html |-> GithubHost]

NoProvider == Provider("none", "", NoDescription)

\* the collaborator calls the primary fetcher of provider p makes
PrimaryFaultPoints(p, links) ==
    IF p.type = "github"
    THEN UNION {{Fault(op, t) : op \in {"parse_issue_url", "get_issue", "body",
                                         "title", "labels", "fetch_sub_issues"}}
                    \cup {Fault("sub_issue", u) : u \in Range(SubIssueUrls(t))}
                : t \in Range(links)}
    ELSE IF p.type = "azure"
    THEN {Fault("get_linked_work_items", "pr")}
             \cup {Fault("work_item", LinkedWorkItems[i].id) : i \in 1..Len(LinkedWorkItems)}
    ELSE {}

\* the settings as far as _extract_jira_tickets_sync has read them:
\* read is "none", "flag" (only jira.enable_jira_integration) or "all"
UnreadSettings ==
    [read |-> "none", enabled |-> TRUE, url |-> NoValue, email |-> NoValue, token |-> NoValue]
DisabledSettings ==
    [read |-> "flag", enabled |-> FALSE, url |-> NoValue, email |-> NoValue, token |-> NoValue]
EnabledSettings(url, email, token) ==
    [read |-> "all", enabled |-> TRUE, url |-> url, email |-> email, token |-> token]

ValidSettings == EnabledSettings(Value(JiraServer), Value("bot@example.com"), Value("secret"))

\* every value a configuration entry can hold
ConfigValues(valid) == {NoValue, Value(""), Value("  "), Value(valid)}
AllConfigs ==
    {EnabledSettings(u, e, t) : u \in ConfigValues(JiraServer),
                                e \in ConfigValues("bot@example.com"),
                                t \in ConfigValues("secret")}
CoreConfigs == {ValidSettings, EnabledSettings(Value(JiraServer), Value("bot@example.com"), Value("  "))}

\* what the settings store can hold when "not jira_keys or not get(...)"
\* and the three reads that follow are evaluated: nothing is read without
\* keys, the configuration is read only with the integration enabled
SettingsRead(jira_keys, configs) ==
    IF jira_keys = <<>> THEN {UnreadSettings} ELSE {DisabledSettings} \cup configs

\* the collaborator calls the Jira fetcher makes once its gate is open
JiraFaultPoints(jira_keys, settings) ==
    IF ~(settings.read = "all" /\ JiraGateOpen(jira_keys, settings)) THEN {}
    ELSE {Fault("jira_connect", JiraServer)}
             \cup {Fault("jira_issue", jira_keys[i]) : i \in 1..Len(jira_keys)}
             \cup UNION {{Fault("jira_subtask", k) : k \in Range(JiraSubtaskKeys(jira_keys[i]))}
                            : i \in 1..Len(jira_keys)}

(***************************************************************************)
(* State.                                                                  *)
(***************************************************************************)
Calls == {1, 2}
PRs == {"pr/1", "pr/2"}

VARIABLES
    cache,  \* the settings store's entries "related_tickets_<pr_url>"
    frame,  \* per call: the coroutine extract_and_cache_pr_tickets
    run,    \* per call: the coroutine extract_tickets it awaits
    vars,   \* per call: vars["related_tickets"]
    log     \* per pull request: the cache writes so far, oldest first

vars_ == <<cache, frame, run, vars, log>>

NoEntry == [present |-> FALSE, value |-> <<>>]
Entry(value) == [present |-> TRUE, value |-> value]

IdleFrame == [pc |-> "idle", pr_url |-> "", review |-> FALSE, hit |-> FALSE, after |-> {}]
NoPrimary == [raised |-> FALSE, tickets |-> <<>>, fetched |-> <<>>]
NoJira == [raised |-> FALSE, client |-> FALSE, issues |-> <<>>, tickets |-> <<>>]
IdleRun ==
    [pc |-> "idle", provider |-> NoProvider, links |-> <<>>, pfaults |-> {},
     primary |-> NoPrimary, jira_ran |-> FALSE, jira_keys |-> <<>>, settings |-> UnreadSettings,
     jfaults |-> {}, jira |-> NoJira, raised |-> FALSE, result |-> <<>>]

Init ==
    /\ cache = [u \in PRs |-> NoEntry]
    /\ frame = [c \in Calls |-> IdleFrame]
    /\ run = [c \in Calls |-> IdleRun]
    /\ vars = [c \in Calls |-> NoEntry]
    /\ log = [u \in PRs |-> <<>>]

Finished == {c \in Calls : frame[c].pc \in {"done", "raised"}}

(***************************************************************************)
(* extract_tickets.                                                        *)
(***************************************************************************)
\* the isinstance branch of extract_tickets
PrimaryTickets(p, links, F) ==
    IF p.type = "github" THEN ExtractGithubTickets(links, F)
    ELSE IF p.type = "azure" THEN ExtractAzureDevopsTickets(F)
    ELSE NoPrimary

\* a variant that logs the exception and raises it again
ExtractTicketsHandlerReraising(tickets_content) ==
    [raised |-> TRUE, tickets |-> tickets_content]

\* "except Exception" of extract_tickets: the exception is logged and
\* tickets_content, as extended so far, is returned
ExtractTicketsHandler(tickets_content) ==
    [raised |-> FALSE, tickets |-> tickets_content]

\* _extract_jira_tickets: what the worker returned, or [] if it raised
JiraWrapperHandler(jira) == IF jira.raised THEN <<>> ELSE jira.tickets

\* tickets_content.extend(primary); tickets_content.extend(jira_tickets)
Concatenate(primary_tickets, jira_tickets) == primary_tickets \o jira_tickets

\* extract_tickets up to "await asyncio.to_thread(...)": the description is
\* read and the primary fetcher runs inline.  An exception of the primary
\* fetcher reaches the handler before anything was extended.
ExtractStart(c, p, links, F) ==
    LET primary == PrimaryTickets(p, links, F)
        caught == ExtractTicketsHandler(<<>>)
    IN  run' = [run EXCEPT ![c] =
                    [IdleRun EXCEPT !.pc = IF primary.raised THEN "returned" ELSE "waiting",
                                    !.provider = p,
                                    !.links = links,
                                    !.pfaults = F,
                                    !.primary = primary,
                                    !.raised = primary.raised /\ caught.raised,
                                    !.result = IF primary.raised THEN caught.tickets ELSE <<>>]]

\* the worker thread: _extract_jira_tickets_sync(user_description).
\* find_jira_tickets raises on a description that is None.
JiraWorker(c, jira_keys, settings, F) ==
    /\ run[c].pc = "waiting"
    /\ run' = [run EXCEPT ![c] =
                   [@ EXCEPT !.pc = "ready",
                             !.jira_ran = TRUE,
                             !.jira_keys = jira_keys,
                             !.settings = settings,
                             !.jfaults = F,
                             !.jira = IF ~run[c].provider.desc.present
                                      THEN [NoJira EXCEPT !.raised = TRUE]
                                      ELSE [raised |-> FALSE]
                                               @@ ExtractJiraTicketsSync(jira_keys, settings, F)]]
    /\ UNCHANGED <<cache, frame, vars, log>>

\* extract_tickets after the await: the Jira records are appended
ExtractReturn(c) ==
    run' = [run EXCEPT ![c] =
                [@ EXCEPT !.pc = "returned",
                          !.result = Concatenate(run[c].primary.tickets,
                                                 JiraWrapperHandler(run[c].jira))]]

(***************************************************************************)
(* extract_and_cache_pr_tickets.                                           *)
(***************************************************************************)
\* "if cached_data:"
CacheValid(entry) == entry.present /\ entry.value # <<>>

\* the value written to vars["related_tickets"] and to the cache
StoredValue(tickets_content) ==
    IF tickets_content # <<>> THEN tickets_content ELSE <<>>

\* a variant that serves the cached list although the flag is false
ReviewDisabledServingCache(c, p) ==
    /\ frame[c].pc = "idle"
    /\ frame' = [frame EXCEPT ![c] =
                     [IdleFrame EXCEPT !.pc = "done", !.pr_url = p.pr_url, !.after = Finished]]
    /\ vars' = [vars EXCEPT ![c] = Entry(cache[p.pr_url].value)]
    /\ UNCHANGED <<cache, run, log>>

\* pr_reviewer.require_ticket_analysis_review is false
ReviewDisabled(c, p) ==
    /\ frame[c].pc = "idle"
    /\ frame' = [frame EXCEPT ![c] =
                     [IdleFrame EXCEPT !.pc = "done", !.pr_url = p.pr_url, !.after = Finished]]
    /\ vars' = [vars EXCEPT ![c] = Entry(<<>>)]
    /\ UNCHANGED <<cache, run, log>>

\* the flag is true and the cache entry is valid
CacheHit(c, p) ==
    /\ frame[c].pc = "idle"
    /\ CacheValid(cache[p.pr_url])
    /\ frame' = [frame EXCEPT ![c] =
                     [IdleFrame EXCEPT !.pc = "done", !.pr_url = p.pr_url, !.review = TRUE,
                                       !.hit = TRUE, !.after = Finished]]
    /\ vars' = [vars EXCEPT ![c] = Entry(cache[p.pr_url].value)]
    /\ UNCHANGED <<cache, run, log>>

\* a variant whose cache key leaves out the pull request's URL
CompleteUnderOneKey(c, pr_url, start) ==
    IF run'[c].raised
    THEN /\ frame' = [frame EXCEPT ![c] = [start EXCEPT !.pc = "raised"]]
         /\ UNCHANGED <<cache, vars, log>>
    ELSE LET value == StoredValue(run'[c].result)
         IN  /\ frame' = [frame EXCEPT ![c] = [start EXCEPT !.pc = "done"]]
             /\ vars' = [vars EXCEPT ![c] = Entry(value)]
             /\ cache' = [u \in PRs |-> Entry(value)]
             /\ log' = [u \in PRs |-> Append(log[u], [by |-> c, value |-> value])]

\* the tail of extract_and_cache_pr_tickets, once extract_tickets has
\* returned (or raised): vars and the cache entry are set
Complete(c, pr_url, start) ==
    IF run'[c].raised
    THEN /\ frame' = [frame EXCEPT ![c] = [start EXCEPT !.pc = "raised"]]
         /\ UNCHANGED <<cache, vars, log>>
    ELSE LET value == StoredValue(run'[c].result)
         IN  /\ frame' = [frame EXCEPT ![c] = [start EXCEPT !.pc = "done"]]
             /\ vars' = [vars EXCEPT ![c] = Entry(value)]
             /\ cache' = [cache EXCEPT ![pr_url] = Entry(value)]
             /\ log' = [log EXCEPT ![pr_url] = Append(@, [by |-> c, value |-> value])]

\* the flag is true and the cache entry is not valid: extract_tickets is
\* awaited; it suspends at the worker thread unless it returns at once
CacheMiss(c, p, links, F) ==
    LET start == [IdleFrame EXCEPT !.pr_url = p.pr_url, !.review = TRUE, !.after = Finished]
    IN  /\ frame[c].pc = "idle"
        /\ ~CacheValid(cache[p.pr_url])
        /\ ExtractStart(c, p, links, F)
        /\ IF run'[c].pc = "returned"
           THEN Complete(c, p.pr_url, start)
           ELSE /\ frame' = [frame EXCEPT ![c] = [start EXCEPT !.pc = "awaiting"]]
                /\ UNCHANGED <<cache, vars, log>>

\* the worker is done: extract_tickets resumes and returns, and the result
\* is stored
Resume(c) ==
    /\ frame[c].pc = "awaiting"
    /\ run[c].pc = "ready"
    /\ ExtractReturn(c)
    /\ Complete(c, frame[c].pr_url, frame[c])

(***************************************************************************)
(* Specifications.                                                         *)
(***************************************************************************)
\* the links the primary fetcher of p is given
LinkLists(p) ==
    IF p.type = "github" THEN ExtractTicketLinks(p.desc, p.repo, p.base_url_html)
    ELSE {<<>>}

\* the key lists the worker of call c can get from find_jira_tickets
KeyLists(c) ==
    IF run[c].provider.desc.present THEN FindJiraTickets(run[c].provider.desc)
    ELSE {<<>>}

Begin(c, providers, ops) ==
    /\ frame[c].pc = "idle"
    /\ \E p \in providers :
           \E links \in LinkLists(p) :
               \E F \in SubsetsUpTo({f \in PrimaryFaultPoints(p, links) : f.op \in ops}, MaxFaults) :
                   CacheMiss(c, p, links, F)

Worker(c, configs, ops) ==
    /\ run[c].pc = "waiting"
    /\ \E jira_keys \in KeyLists(c) :
           \E settings \in SettingsRead(jira_keys, configs[run[c].provider.type]) :
               \E F \in SubsetsUpTo({f \in JiraFaultPoints(jira_keys, settings) : f.op \in ops},
                                    MaxFaults - Cardinality(run[c].pfaults)) :
                   JiraWorker(c, jira_keys, settings, F)

AllFaultOps ==
    {"parse_issue_url", "get_issue", "body", "title", "labels", "fetch_sub_issues",
     "sub_issue", "get_linked_work_items", "work_item",
     "jira_connect", "jira_issue", "jira_subtask"}

\* Two pull requests analysed by two calls, in any interleaving.
CacheProviders ==
    {Provider("github", "pr/1", Description({UrlToken(1)}, {"ABC-123"})),
     Provider("azure", "pr/2", Description({}, {"XYZ-9"}))}
CacheFaultOps == {"get_issue", "title", "sub_issue", "get_linked_work_items", "jira_connect"}
CacheConfigs == [type \in ProviderTypes |-> {ValidSettings}]

Next ==
    \E c \in Calls :
        \/ \E p \in CacheProviders : ReviewDisabled(c, p)
        \/ \E p \in CacheProviders : CacheHit(c, p)
        \/ Begin(c, CacheProviders, CacheFaultOps)
        \/ Worker(c, CacheConfigs, CacheFaultOps)
        \/ Resume(c)

Spec == Init /\ [][Next]_vars_

\* One call on an empty cache, over every description, provider class,
\* configuration and fault.
GithubDescriptions ==
    {NoDescription}
        \cup {Description(gh, jira) : gh \in (SUBSET GithubTokens) \cup OtherTokenSets,
                                      jira \in {{}, {"ABC-123"}}}
PlainDescriptions ==
    {NoDescription} \cup {Description({}, jira) : jira \in SUBSET JiraKeys}
FetchProviders ==
    {Provider("github", "pr/1", d) : d \in GithubDescriptions}
        \cup {Provider(type, "pr/1", d) : type \in {"azure", "other"}, d \in PlainDescriptions}
\* every configuration is tried where Jira is the only source
FetchConfigs == [type \in ProviderTypes |-> IF type = "other" THEN AllConfigs ELSE CoreConfigs]

NextFetch ==
    \/ \E p \in FetchProviders : ReviewDisabled(1, p)
    \/ Begin(1, FetchProviders, AllFaultOps)
    \/ Worker(1, FetchConfigs, AllFaultOps)
    \/ Resume(1)

SpecFetch == Init /\ [][NextFetch]_vars_

(***************************************************************************)
(* Properties.                                                             *)
(***************************************************************************)
\* the call c awaited extract_tickets
Invoked(c) == run[c].pc # "idle"

\* call b began after call a had returned
Sequential(a, b) == a # b /\ frame[b].pc # "idle" /\ a \in frame[b].after

\* C1: from an empty cache, two sequential calls for the same pull request
\* with the review flag true invoke extract_tickets at most once in total,
\* whatever list the first run returned (the empty list included), and the
\* second call gets the list the first call got.
C1_SecondCallUsesCache ==
    \A a, b \in Calls :
        (/\ Sequential(a, b)
         /\ frame[a].pc = "done" /\ frame[b].pc = "done"
         /\ frame[a].review /\ frame[b].review
         /\ frame[a].pr_url = frame[b].pr_url)
            => /\ Cardinality({c \in {a, b} : Invoked(c)}) <= 1
               /\ vars[b] = vars[a]

\* C3: a call made with the review flag false sets vars["related_tickets"]
\* to [], whatever the cache holds, invokes neither extract_tickets nor a
\* fetcher, and leaves the cache store as it was.
C3_ReviewDisabledIsInert ==
    [][\A c \in Calls :
           (frame[c].pc = "idle" /\ frame'[c].pc # "idle" /\ ~frame'[c].review)
               => /\ frame'[c].pc = "done"
                  /\ vars'[c] = Entry(<<>>)
                  /\ run' = run
                  /\ cache' = cache
                  /\ log' = log]_vars_

C3_Witness ==
    \E c \in Calls :
        /\ frame[c].pc = "done" /\ ~frame[c].review
        /\ CacheValid(cache[frame[c].pr_url])
        /\ vars[c] = Entry(<<>>)
        /\ ~Invoked(c)

\* the Jira records of the run of call c, computed from what its worker was
\* given
JiraOf(c) ==
    IF ~run[c].jira_ran \/ ~run[c].provider.desc.present THEN <<>>
    ELSE ExtractJiraTicketsSync(run[c].jira_keys, run[c].settings, run[c].jfaults).tickets

\* the complete list of the run of call c: every record its fetchers built
CompleteList(c) ==
    LET primary == PrimaryTickets(run[c].provider, run[c].links, run[c].pfaults)
    IN  IF primary.raised THEN <<>> ELSE primary.tickets \o JiraOf(c)

\* the calls that ran extract_tickets to its end for the pull request
RunsFor(pr_url) ==
    {c \in Calls : frame[c].pr_url = pr_url /\ run[c].pc = "returned"}

\* C8: under every interleaving of two calls, a call's
\* vars["related_tickets"] is the complete list of its own run or a complete
\* list cached before by a run for the same pull request; the cache entry of
\* a pull request is the last list written for it, the complete list of one
\* of the runs for that pull request; calls for different pull requests
\* never read or write each other's entry.
C8_LastWriteWinsNoCorruption ==
    /\ \A c \in Calls :
           (frame[c].pc = "done" /\ frame[c].review) =>
               IF frame[c].hit
               THEN /\ ~Invoked(c)
                    /\ \E d \in RunsFor(frame[c].pr_url) \ {c} :
                           vars[c] = Entry(CompleteList(d))
               ELSE /\ run[c].pc = "returned"
                    /\ vars[c] = Entry(CompleteList(c))
    /\ \A u \in PRs :
           /\ \A i \in 1..Len(log[u]) :
                  /\ frame[log[u][i].by].pr_url = u
                  /\ log[u][i].value = CompleteList(log[u][i].by)
           /\ Len(log[u]) = Cardinality({c \in RunsFor(u) : frame[c].pc = "done"})
           /\ cache[u] = IF log[u] = <<>> THEN NoEntry
                         ELSE Entry(log[u][Len(log[u])].value)

\* both calls ran extract_tickets for the same pull request, with different
\* results, and the later write is the cache entry
C8_Witness ==
    /\ frame[1].pc = "done" /\ frame[2].pc = "done"
    /\ frame[1].pr_url = frame[2].pr_url
    /\ run[1].pc = "returned" /\ run[2].pc = "returned"
    /\ 2 \notin frame[1].after /\ 1 \notin frame[2].after
    /\ run[1].result # run[2].result
    /\ run[1].result # <<>> /\ run[2].result # <<>>
    /\ Len(log[frame[1].pr_url]) = 2
    /\ log[frame[1].pr_url][2].by = 1
    /\ cache[frame[1].pr_url] = Entry(run[1].result)

\* the records of a list by their source
IsJiraRecord(r) == "status" \in DOMAIN r
IsWorkItemRecord(r) == "requirements" \in DOMAIN r
IsGithubRecord(r) == r.ticket_id \in {"GH-" \o ToString(n) : n \in AllIssueNums}
NoJiraRecord(list) == \A i \in 1..Len(list) : ~IsJiraRecord(list[i])
NoWorkItemRecord(list) == \A i \in 1..Len(list) : ~IsWorkItemRecord(list[i])
NoGithubRecord(list) == \A i \in 1..Len(list) : ~IsGithubRecord(list[i])
IsList(v) == DOMAIN v = 1..Len(v)

\* C2: whatever fails, a call never ends with an exception, is never stuck
\* at the await, and has set vars["related_tickets"] to a list when it
\* returns.
C2_NeverRaisesAlwaysList ==
    \A c \in Calls :
        /\ frame[c].pc # "raised"
        /\ ~run[c].raised
        /\ frame[c].pc = "awaiting" => run[c].pc \in {"waiting", "ready"}
        /\ frame[c].pc = "done" => vars[c].present /\ IsList(vars[c].value)
        /\ frame[c].pc \in {"idle", "awaiting"} => ~vars[c].present

\* a call that returned after an item failed in the primary fetcher and the
\* worker thread raised on a missing description
C2_Witness ==
    /\ frame[1].pc = "done"
    /\ run[1].pfaults # {}
    /\ run[1].jira.raised
    /\ vars[1].present /\ vars[1].value # <<>>

\* C4: a Jira client is constructed only if a key was found, the
\* integration is enabled and the server URL, the email and the token are
\* all set and not blank; otherwise no client is constructed, no issue is
\* fetched and the result holds no Jira record.
NonBlank(v) == v.set /\ v.text \notin {"", " ", "  "}

GateConditions(c) ==
    /\ run[c].jira_keys # <<>>
    /\ run[c].settings.read = "all"
    /\ run[c].settings.enabled
    /\ NonBlank(run[c].settings.url)
    /\ NonBlank(run[c].settings.email)
    /\ NonBlank(run[c].settings.token)

C4_JiraGate ==
    \A c \in Calls :
        /\ run[c].jira.client => GateConditions(c)
        /\ run[c].jira.issues # <<>> => run[c].jira.client
        /\ ~GateConditions(c) =>
               /\ ~run[c].jira.client
               /\ run[c].jira.issues = <<>>
               /\ run[c].jira.tickets = <<>>
               /\ NoJiraRecord(run[c].result)

\* keys are present and the integration is disabled
C4_Witness ==
    /\ run[1].pc = "returned"
    /\ run[1].jira_keys # <<>>
    /\ run[1].settings.read = "flag" /\ ~run[1].settings.enabled
    /\ ~run[1].jira.client

\* C5: a sub-item (GitHub sub-issue, Jira subtask) whose fetch fails is
\* left out and nothing else changes: the records are those of the same run
\* without the sub-item failures, less the failed sub-items; when only
\* sub-items fail, every referenced ticket has its record, with its
\* remaining sub-items in order.
SubItemFaults(F) == {f \in F : f.op \in {"sub_issue", "jira_subtask"}}

DropSubItems(records, urls) ==
    [i \in 1..Len(records) |->
        IF "sub_issues" \in DOMAIN records[i]
        THEN [records[i] EXCEPT !.sub_issues = SelectSeq(@, LAMBDA s : s.ticket_url \notin urls)]
        ELSE records[i]]

SubItemUrls(record) ==
    [j \in 1..Len(record.sub_issues) |-> record.sub_issues[j].ticket_url]

C5_SubItemFailureIsLocal ==
    \A c \in Calls :
        run[c].pc = "returned" =>
            LET r == run[c]
                F == r.pfaults
                G == r.jfaults
                jira_url == r.settings.url.text
                failed == {f.on : f \in SubItemFaults(F)}
                              \cup {jira_url \o "/browse/" \o f.on : f \in SubItemFaults(G)}
                base == PrimaryTickets(r.provider, r.links, F \ SubItemFaults(F))
                subs(t) == SelectSeq(SubIssueUrls(t), LAMBDA u : Fault("sub_issue", u) \notin F)
                subtasks(k) == SelectSeq(JiraSubtaskKeys(k), LAMBDA s : Fault("jira_subtask", s) \notin G)
            IN  /\ r.primary.raised = base.raised
                /\ r.primary.tickets = DropSubItems(base.tickets, failed)
                /\ r.jira.client =>
                       r.jira.tickets =
                           DropSubItems(ExtractJiraTicketsSync(r.jira_keys, r.settings,
                                                               G \ SubItemFaults(G)).tickets, failed)
                /\ (r.provider.type = "github" /\ F = SubItemFaults(F)) =>
                       /\ Len(r.primary.tickets) = Len(r.links)
                       /\ SubSeq(r.result, 1, Len(r.links)) = r.primary.tickets
                       /\ \A i \in 1..Len(r.links) :
                              /\ r.primary.tickets[i].ticket_url = r.links[i]
                              /\ SubItemUrls(r.primary.tickets[i]) = subs(r.links[i])
                /\ (r.jira.client /\ G = SubItemFaults(G)) =>
                       /\ Len(r.jira.tickets) = Len(r.jira_keys)
                       /\ SubSeq(r.result, Len(r.result) - Len(r.jira_keys) + 1, Len(r.result))
                              = r.jira.tickets
                       /\ \A i \in 1..Len(r.jira_keys) :
                              /\ r.jira.tickets[i].ticket_id = r.jira_keys[i]
                              /\ SubItemUrls(r.jira.tickets[i])
                                     = [j \in 1..Len(subtasks(r.jira_keys[i])) |->
                                           jira_url \o "/browse/" \o subtasks(r.jira_keys[i])[j]]

\* one sub-issue of issue 1 failed: its record keeps the other sub-issue and
\* the sibling tickets are reported
C5_Witness ==
    /\ run[1].pc = "returned"
    /\ run[1].provider.type = "github"
    /\ Len(run[1].links) = 3
    /\ \E f \in run[1].pfaults : f.op = "sub_issue"
    /\ Len(run[1].primary.tickets) = 3
    /\ \E i \in 1..3 :
           /\ run[1].result[i].ticket_id = "GH-1"
           /\ Len(run[1].result[i].sub_issues) = 1

\* C6: extract_tickets returns the primary provider's records (of the
\* repo-issue fetcher for a GitHub provider, of the work-item fetcher for an
\* Azure DevOps provider, none otherwise) followed by the Jira records, and
\* the Jira fetch runs for every provider.
C6_PrimaryThenJira ==
    \A c \in Calls :
        run[c].pc = "returned" =>
            /\ run[c].jira_ran
            /\ run[c].result = run[c].primary.tickets \o run[c].jira.tickets
            /\ run[c].jira.tickets = JiraOf(c)
            /\ NoJiraRecord(run[c].primary.tickets)
            /\ run[c].provider.type # "github" => NoGithubRecord(run[c].result)
            /\ run[c].provider.type # "azure" => NoWorkItemRecord(run[c].result)

\* C7: at most 3 links are passed to the repo-issue fetcher, at most 3 main
\* issues are fetched and at most 3 GH records are returned; 3 or fewer
\* distinct references are all passed on.
C7_AtMostThreeLinks ==
    \A c \in Calls :
        (Invoked(c) /\ run[c].provider.type = "github") =>
            LET r == run[c]
                found == FoundTicketLinks(r.provider.desc, r.provider.repo, r.provider.base_url_html)
            IN  /\ Len(r.links) <= 3
                /\ Cardinality(Range(r.links)) = Len(r.links)
                /\ Range(r.links) \subseteq found
                /\ Cardinality(found) <= 3 => Range(r.links) = found
                /\ Cardinality(found) > 3 => Len(r.links) = 3
                /\ Len(r.primary.fetched) <= 3
                /\ Cardinality({i \in 1..Len(r.result) : IsGithubRecord(r.result[i])}) <= 3

\* four distinct references were found, three were fetched and reported
C7_Witness ==
    /\ run[1].pc = "returned"
    /\ run[1].provider.type = "github"
    /\ Cardinality(FoundTicketLinks(run[1].provider.desc, RepoPath, GithubHost)) = 4
    /\ Len(run[1].primary.fetched) = 3
    /\ Cardinality({i \in 1..Len(run[1].result) : IsGithubRecord(run[1].result[i])}) = 3

\* C9: the repo-issue fetcher never raises; a failure while processing one
\* reference costs at most that reference's record.
C9_FetcherNeverRaises ==
    \A c \in Calls :
        (Invoked(c) /\ run[c].provider.type = "github") =>
            /\ ~run[c].primary.raised
            /\ \A i \in 1..Len(run[c].links) :
                   (\A f \in run[c].pfaults : f.on # run[c].links[i]) =>
                       \E j \in 1..Len(run[c].primary.tickets) :
                           run[c].primary.tickets[j].ticket_url = run[c].links[i]

\* C10: a failing Jira connection leaves no Jira record and every primary
\* record that was built; a failing work-item list leaves no work-item
\* record while the Jira fetch still runs and its records are returned.
C10_SourceFailureIsLocal ==
    \A c \in Calls :
        run[c].pc = "returned" =>
            LET r == run[c]
            IN  /\ Fault("jira_connect", JiraServer) \in r.jfaults =>
                       /\ r.jira.client
                       /\ NoJiraRecord(r.result)
                       /\ r.result = PrimaryTickets(r.provider, r.links, r.pfaults).tickets
                /\ (r.provider.type = "azure"
                        /\ Fault("get_linked_work_items", "pr") \in r.pfaults) =>
                       /\ NoWorkItemRecord(r.result)
                       /\ r.jira_ran
                       /\ r.result = JiraOf(c)

\* the Jira connection failed after GitHub records were built
C10_Witness ==
    /\ run[1].pc = "returned"
    /\ run[1].provider.type = "github"
    /\ Fault("jira_connect", JiraServer) \in run[1].jfaults
    /\ run[1].jira_keys # <<>>
    /\ run[1].result # <<>>
    /\ run[1].result = run[1].primary.tickets
====
